---------------------------- MODULE Spec2Model ----------------------------
(***************************************************************************)
(* The prediction-error-filter notebook PEF.ipynb as a state machine.      *)
(*                                                                         *)
(* The state is the notebook's global namespace (the arrays and scalars    *)
(* the cells assign) and the position of a top-to-bottom run.  One action  *)
(* per code cell of the numerical core (cells 18 to 44).  The plotting     *)
(* cells assign nothing the core reads and are left out.                   *)
(*                                                                         *)
(* Floating-point numbers are modelled by exact rationals <<num, den>>     *)
(* with den > 0 in lowest terms, and by NaN; rounding is not modelled.     *)
(* A run stops at the first exception a cell raises: err names it and pc   *)
(* stays at the cell that raised.                                          *)
(***************************************************************************)
EXTENDS Integers, Sequences, FiniteSets, TLC

(***************************************************************************)
(* Bounds of the model.                                                    *)
(***************************************************************************)
\* samples per channel (nt)
NT == 6
\* largest training length Nd drawn
MaxNd == 3
\* largest filter length n drawn
MaxN == 2
\* largest delay, in samples, between the two channels drawn
MaxLag == 2

(***************************************************************************)
(* Exact arithmetic standing for numpy's float64 arithmetic.               *)
(***************************************************************************)
\* The identity.  TLC builds a function value lazily and recomputes an entry at
\* each use; comparing the value with itself makes it compute every entry once.
Strict(f) == IF f = f THEN f ELSE f

Abs(x) == IF x < 0 THEN -x ELSE x

RECURSIVE GCD(_, _)
GCD(a, b) == IF b = 0 THEN a ELSE GCD(b, a % b)

\* the rational num/den (den # 0) in lowest terms with a positive denominator
Rat(num, den) ==
    LET g == GCD(Abs(num), Abs(den))
        s == IF den < 0 THEN -1 ELSE 1
    IN  <<(s * num) \div g, (s * den) \div g>>

Zero == <<0, 1>>
One == <<1, 1>>
NaN == <<0, 0>>

IsNaN(x) == x[2] = 0

Float(k) == <<k, 1>>

\* sums and products cancel common factors before they multiply, which keeps
\* the intermediate integers small
RAdd(x, y) ==
    IF IsNaN(x) \/ IsNaN(y) THEN NaN
    ELSE LET g == GCD(x[2], y[2])
         IN  Rat(x[1] * (y[2] \div g) + y[1] * (x[2] \div g), (x[2] \div g) * y[2])

RSub(x, y) == RAdd(x, <<0 - y[1], y[2]>>)

RMul(x, y) ==
    IF IsNaN(x) \/ IsNaN(y) THEN NaN
    ELSE LET g1 == GCD(Abs(x[1]), y[2])
             g2 == GCD(Abs(y[1]), x[2])
         IN  Rat((x[1] \div g1) * (y[1] \div g2), (x[2] \div g2) * (y[2] \div g1))

\* float division: 0.0/0.0 and anything with a NaN give NaN (numpy warns and
\* goes on).  The program's only zero divisor is float(imax-imin) = 0.0, which
\* divides the freshly zeroed correlation vector, so x/0 with x # 0 (an
\* infinity) never arises.
RDiv(x, y) ==
    IF IsNaN(x) \/ IsNaN(y) \/ y[1] = 0 THEN NaN
    ELSE RMul(x, Rat(y[2], y[1]))

\* x < y on floats; every comparison with a NaN is false
RLt(x, y) == ~IsNaN(x) /\ ~IsNaN(y) /\ x[1] * y[2] < y[1] * x[2]

RECURSIVE SumSeq(_)
SumSeq(s) == IF s = <<>> THEN Zero ELSE RAdd(Head(s), SumSeq(Tail(s)))

\* np.dot of two 1-D arrays of equal length
Dot(u, v) == SumSeq([k \in 1..Len(u) |-> RMul(u[k], v[k])])

\* np.zeros(m), np.zeros([m, k])
Zeros(m) == [k \in 1..m |-> Zero]
Zeros2(m, k) == [r \in 1..m |-> Zeros(k)]

\* np.mean of a 1-D array: sum / size, NaN for an empty array
Mean(v) == RDiv(SumSeq(v), Float(Len(v)))

\* np.sqrt of a float, kept symbolic: the nonnegative real whose square is sq,
\* or NaN for a negative or NaN argument
Sqrt(x) ==
    IF IsNaN(x) \/ RLt(x, Zero) THEN [real |-> FALSE, sq |-> NaN]
    ELSE [real |-> TRUE, sq |-> x]

(***************************************************************************)
(* numpy indexing of a 1-D array v (0-based, TLA+ sequences are 1-based).  *)
(***************************************************************************)
\* v[k] raises IndexError unless -len <= k < len
InRange(v, k) == -Len(v) <= k /\ k < Len(v)

\* v[k]; a negative k counts from the end
At(v, k) == v[(IF k < 0 THEN k + Len(v) ELSE k) + 1]

\* where a slice bound lands: negative bounds count from the end, then clamp
Clamp(len, k) ==
    IF k < 0 THEN (IF k + len < 0 THEN 0 ELSE k + len)
    ELSE (IF k > len THEN len ELSE k)

\* v[a:b]
Slice(v, a, b) ==
    LET lo == Clamp(Len(v), a)
        hi == Clamp(Len(v), b)
    IN  IF lo < hi THEN [k \in 1..(hi - lo) |-> v[lo + k]] ELSE <<>>

\* a variant of Roll that shifts the other way
RollLeft(v, s) == [k \in 1..Len(v) |-> v[((k - 1 + s) % Len(v)) + 1]]

\* np.roll(v, s): element k of the result is v[(k - s) mod len]
Roll(v, s) == [k \in 1..Len(v) |-> v[((k - 1 - s) % Len(v)) + 1]]


(***************************************************************************)
(* Dense linear algebra.  A matrix is a sequence of rows.                  *)
(***************************************************************************)
\* np.dot(M, v), M 2-D and v 1-D: entry r is row r of M times v
MatVec(M, v) == [r \in 1..Len(M) |-> Dot(M[r], v)]

\* column q of a matrix
Col(M, q) == [r \in 1..Len(M) |-> M[r][q]]

\* np.dot(v, M), v 1-D and M 2-D with cols columns: entry q is v times column q
VecMat(v, M, cols) == [q \in 1..cols |-> Dot(v, Col(M, q))]

\* the matrix whose columns are the 1-D arrays cs[1], ..., each of length rows
FromCols(cs, rows) == [r \in 1..rows |-> [q \in 1..Len(cs) |-> cs[q][r]]]

\* [M | I]
Augment(M) ==
    LET N == Len(M)
    IN  [r \in 1..N |-> [c \in 1..(2 * N) |->
            IF c <= N THEN M[r][c] ELSE IF c - N = r THEN One ELSE Zero]]

PivotRows(M, c) == {r \in c..Len(M) : M[r][c] # Zero}

\* Gauss-Jordan elimination of the augmented matrix from column c on; <<>>
\* when a column has no nonzero pivot (the matrix is singular).  In exact
\* arithmetic the inverse does not depend on which pivot is taken.
RECURSIVE Eliminate(_, _)
Eliminate(M, c) ==
    IF c > Len(M) THEN M
    ELSE IF PivotRows(M, c) = {} THEN <<>>
    ELSE LET N == Len(M)
             pr == CHOOSE r \in PivotRows(M, c) : \A r2 \in PivotRows(M, c) : r <= r2
             piv == M[pr][c]
             prow == [k \in 1..(2 * N) |-> RDiv(M[pr][k], piv)]
             rowOf(r) == IF r = c THEN pr ELSE IF r = pr THEN c ELSE r
             next == [r \in 1..N |->
                        IF r = c THEN prow
                        ELSE [k \in 1..(2 * N) |->
                                RSub(M[rowOf(r)][k], RMul(M[rowOf(r)][c], prow[k]))]]
         IN  Eliminate(Strict(next), c + 1)

\* np.linalg.inv raises LinAlgError("Singular matrix") for a singular matrix
Singular(M) == Eliminate(Strict(Augment(M)), 1) = <<>>

\* np.linalg.inv(M) of a nonsingular M; an all-NaN matrix comes back all NaN
Inv(M) ==
    LET N == Len(M)
        e == Eliminate(Strict(Augment(M)), 1)
    IN  [r \in 1..N |-> [c \in 1..N |-> e[r][N + c]]]

(***************************************************************************)
(* The notebook's state.                                                    *)
(***************************************************************************)
VARIABLES
    cct_filt_down,  \* the filtered multi-channel dataset: channel -> samples
    d,              \* the channel the name d is a view of (0: not yet bound)
    d_new,          \* the channel the name d_new is a view of (0: not yet bound)
    Nd, n, i0,      \* training length, filter length, training start index
    imin, imax,     \* the noise window [imin, imax)
    demeaned,       \* per channel: how many times "-= mean" has run on it
    corr, C, Cinv,  \* correlation vector, covariance matrix and its inverse
    X, b, A,        \* auxiliary matrix, right-hand side, system matrix
    p,              \* the filter coefficients
    d_pred,         \* the latest prediction
    res,            \* the latest rms error
    Nd_new,         \* the extended horizon
    corr_new, C_new, Cinv_new,
    pc,             \* the cell to run next, or "done"
    err             \* the exception that stopped the run at cell pc ("": none)

vars == <<cct_filt_down, d, d_new, Nd, n, i0, imin, imax, demeaned, corr, C, Cinv,
          X, b, A, p, d_pred, res, Nd_new, corr_new, C_new, Cinv_new, pc, err>>

\* the two channels the notebook picks
i_trace == 340
i_trace_new == 350
Channels == {i_trace, i_trace_new}

(***************************************************************************)
(* The loops of the cells, with the exception numpy raises part-way.       *)
(***************************************************************************)
\* loop order of a doubly nested loop: pair a is visited before pair b
Before(u, v) == u[1] < v[1] \/ (u[1] = v[1] /\ u[2] < v[2])

\* the pair of S the loop visits first
First(S) == CHOOSE a \in S : \A o \in S : a = o \/ Before(a, o)

\* a pair is executed when no pair raises, or it comes before the first that does
Executed(a, bad) == bad = {} \/ Before(a, First(bad))

\* for i in np.arange(lo,hi): for j in range(horizon): acc[j]+=sig[i]*sig[i+j]
\* starting from zeros; ok is FALSE when an index raises IndexError, and vec
\* then holds what was accumulated before it
CorrAccum(sig, lo, hi, horizon) ==
    LET bad == {a \in (lo..(hi - 1)) \X (0..(horizon - 1)) :
                   ~InRange(sig, a[1]) \/ ~InRange(sig, a[1] + a[2])}
        term(i, j) == IF Executed(<<i, j>>, bad)
                      THEN RMul(At(sig, i), At(sig, i + j)) ELSE Zero
    IN  [ok  |-> bad = {},
         vec |-> [j \in 1..horizon |->
                    SumSeq([k \in 1..(IF hi > lo THEN hi - lo ELSE 0) |->
                               term(lo + k - 1, j - 1)])]]

\* a variant of CorrScale that divides by the number of lags
CorrScaleByLags(acc, lo, hi) == [j \in 1..Len(acc) |-> RDiv(acc[j], Float(Len(acc)))]

\* acc/=np.float(hi-lo)
CorrScale(acc, lo, hi) == [j \in 1..Len(acc) |-> RDiv(acc[j], Float(hi - lo))]

\* a variant of Circulant that mirrors the lags: M[i,k] = v[|k-i|]
SymmetricToeplitz(v) == [i \in 1..Len(v) |-> [k \in 1..Len(v) |-> v[Abs(k - i) + 1]]]

\* for i in range(N): M[i,:]=np.roll(v,i)
Circulant(v) == [i \in 1..Len(v) |-> Roll(v, i - 1)]

\* a variant of Lagged that lags by q instead of q+1
LaggedByQ(sig, start, q, len) == Slice(sig, start - q, start - q + len)

\* sig[(start-q-1):(start-q-1+len)], the segment lagged by q+1
Lagged(sig, start, q, len) == Slice(sig, start - q - 1, start - q - 1 + len)

\* a variant of Predict that feeds its own output back: from the start index
\* on it reads the value it predicted instead of the sample
RECURSIVE FeedBack(_, _, _, _, _)
FeedBack(sig, start, horizon, coef, out) ==
    IF Len(out) = horizon THEN out
    ELSE LET j == Len(out)
             past(i) == IF j - i >= 0 THEN out[j - i + 1] ELSE At(sig, start + j - i)
         IN  FeedBack(sig, start, horizon, coef,
                      Append(out, SumSeq([i \in 1..Len(coef) |-> RMul(past(i), coef[i])])))

PredictFedBack(sig, start, horizon, coef, nn) ==
    [ok |-> TRUE, vec |-> FeedBack(sig, start, horizon, coef, <<>>)]

\* for j in range(horizon): for i in range(nn): out[j]+=sig[start+j-i-1]*coef[i]
Predict(sig, start, horizon, coef, nn) ==
    LET bad == {a \in (0..(horizon - 1)) \X (0..(nn - 1)) :
                   ~InRange(sig, start + a[1] - a[2] - 1)}
        term(j, i) == IF Executed(<<j, i>>, bad)
                      THEN RMul(At(sig, start + j - i - 1), coef[i + 1]) ELSE Zero
    IN  [ok  |-> bad = {},
         vec |-> [j \in 1..horizon |->
                    SumSeq([i \in 1..nn |-> term(j - 1, i - 1)])]]

\* u - v on 1-D arrays broadcasts: equal lengths, or one of them of length 1
CanBroadcast(u, v) == Len(u) = Len(v) \/ Len(u) = 1 \/ Len(v) = 1

VSub(u, v) ==
    LET len == IF Len(u) = 1 THEN Len(v) ELSE Len(u)
    IN  [k \in 1..len |-> RSub(IF Len(u) = 1 THEN u[1] ELSE u[k],
                               IF Len(v) = 1 THEN v[1] ELSE v[k])]

\* the residual cells: whether d_pred-obs and np.dot(., Ci) are well-shaped
ScoreShapesOk(pred, obs, Ci) ==
    CanBroadcast(pred, obs) /\ Len(VSub(pred, obs)) = Len(Ci)

\* res=np.dot(pred-obs,Ci); res=np.dot(res,pred-obs): the quadratic form
QuadForm(pred, obs, Ci) ==
    Dot(VecMat(VSub(pred, obs), Ci, Len(Ci)), VSub(pred, obs))

\* res=np.sqrt(res/np.float(L))
Score(pred, obs, Ci, L) == Sqrt(RDiv(QuadForm(pred, obs, Ci), Float(L)))

(***************************************************************************)
(* Inputs: the dataset the preprocessing cells leave in cct_filt_down and  *)
(* the parameters the notebook sets by hand.                               *)
(***************************************************************************)
\* sample values of the pattern the data is made of
Samples == {-2, 0, 2}

\* sample k (from 0) of the signal that runs through the three-sample pattern f
\* forwards, then backwards, and so on
Pattern(f, k) == LET m == k % 6 IN IF m < 3 THEN f[m + 1] ELSE f[6 - m]

\* one channel, stored as floats: nt samples of the signal, seen lag samples
\* later and on the baseline base
Trace(f, lag, base) == [k \in 1..NT |-> Float(Pattern(f, k - 1 + lag) + base)]

\* the datasets drawn: channel i_trace records the signal, channel i_trace_new
\* records it later and on another baseline
Datasets ==
    {[ch \in Channels |-> IF ch = i_trace THEN Trace(f, 0, 0) ELSE Trace(f, lag, base)] :
        f \in Samples \X Samples \X Samples, lag \in 1..MaxLag, base \in 0..1}

\* the view of a channel through the name bound to it
View(ch) == cct_filt_down[ch]

Unset == <<>>

Init ==
    /\ cct_filt_down \in Datasets
    /\ Nd \in 1..MaxNd
    /\ n \in 1..MaxN
    /\ i0 \in {-2, 1, 2, NT - 1}
    /\ imin \in 0..1
    /\ imax \in 0..(imin + 2)
    /\ d = 0 /\ d_new = 0
    /\ demeaned = [ch \in Channels |-> 0]
    /\ corr = Unset /\ C = Unset /\ Cinv = Unset
    /\ X = Unset /\ b = Unset /\ A = Unset /\ p = Unset
    /\ d_pred = Unset /\ res = Unset /\ Nd_new = 0
    /\ corr_new = Unset /\ C_new = Unset /\ Cinv_new = Unset
    /\ pc = "cell18" /\ err = ""

params == <<Nd, n, i0, imin, imax>>

\* a cell runs when the run has reached it and no exception has stopped the run
Reached(cell) == pc = cell /\ err = ""

\* a cell ends: on to the next cell, or the run stops with exception e
Goto(next) == pc' = next /\ err' = ""
Raise(e) == pc' = pc /\ err' = e

(***************************************************************************)
(* Cell 18: d=cct_filt_down[i_trace,:] is a view, not a copy.              *)
(***************************************************************************)
Cell18 ==
    /\ Reached("cell18")
    /\ d' = i_trace
    /\ Goto("cell21")
    /\ UNCHANGED <<cct_filt_down, d_new, params, demeaned, corr, C, Cinv, X, b, A, p,
                   d_pred, res, Nd_new, corr_new, C_new, Cinv_new>>

(***************************************************************************)
(* Cell 21: mean removal (in place, through the view) and the correlation  *)
(* vector over the noise window.                                           *)
(***************************************************************************)
\* d-=mean with mean=np.mean(d[imin:imax])
MeanRemoved(sig, lo, hi) ==
    [k \in 1..Len(sig) |-> RSub(sig[k], Mean(Slice(sig, lo, hi)))]

Cell21 ==
    /\ Reached("cell21")
    /\ LET sig == MeanRemoved(View(d), imin, imax)
           acc == CorrAccum(sig, imin, imax, Nd)
       IN  /\ cct_filt_down' = [cct_filt_down EXCEPT ![d] = sig]
           /\ demeaned' = [demeaned EXCEPT ![d] = @ + 1]
           /\ IF acc.ok
              THEN corr' = CorrScale(acc.vec, imin, imax) /\ Goto("cell24")
              ELSE corr' = acc.vec /\ Raise("IndexError")
    /\ UNCHANGED <<d, d_new, params, C, Cinv, X, b, A, p, d_pred, res, Nd_new,
                   corr_new, C_new, Cinv_new>>

(***************************************************************************)
(* Cell 24: covariance matrix from shifted copies, and its inverse.        *)
(***************************************************************************)
Cell24 ==
    /\ Reached("cell24")
    /\ C' = Circulant(corr)
    /\ IF Singular(Circulant(corr))
       THEN Cinv' = Cinv /\ Raise("LinAlgError")
       ELSE Cinv' = Inv(Circulant(corr)) /\ Goto("cell29")
    /\ UNCHANGED <<cct_filt_down, d, d_new, params, demeaned, corr, X, b, A, p, d_pred,
                   res, Nd_new, corr_new, C_new, Cinv_new>>

(***************************************************************************)
(* Cell 29: auxiliary matrix X, vector b and matrix A.                     *)
(***************************************************************************)
\* X after "for q in range(nn): X[:,q]=np.dot(Ci, lagged q)": np.dot raises
\* ValueError at the first lagged slice whose length is not len, and the
\* columns from there on stay zero
BuildX(sig, start, len, nn, Ci) ==
    LET bad == {q \in 0..(nn - 1) : Len(Lagged(sig, start, q, len)) # len}
        done(q) == \A q2 \in bad : q < q2
    IN  [ok  |-> bad = {},
         mat |-> FromCols([q \in 1..nn |->
                              IF done(q - 1)
                              THEN MatVec(Ci, Lagged(sig, start, q - 1, len))
                              ELSE Zeros(len)], len)]

\* b=np.dot(sig[start:(start+len)],XX)
BuildB(sig, start, len, nn, XX) == VecMat(Slice(sig, start, start + len), XX, nn)

\* a variant of BuildA whose column k uses the trace one lag later than X does
BuildALagSkewed(sig, start, len, nn, XX) ==
    FromCols([k \in 1..nn |-> VecMat(Lagged(sig, start, k - 2, len), XX, nn)], nn)

\* for k in range(nn): A[:,k]=np.dot(lagged k, XX)
BuildA(sig, start, len, nn, XX) ==
    FromCols([k \in 1..nn |-> VecMat(Lagged(sig, start, k - 1, len), XX, nn)], nn)

Cell29 ==
    /\ Reached("cell29")
    /\ LET bx == BuildX(View(d), i0, Nd, n, Cinv)
           XX == Strict(bx.mat)
       IN  /\ X' = XX
           /\ IF bx.ok /\ Len(Slice(View(d), i0, i0 + Nd)) = Nd
              THEN /\ b' = BuildB(View(d), i0, Nd, n, XX)
                   /\ A' = BuildA(View(d), i0, Nd, n, XX)
                   /\ Goto("cell30")
              ELSE /\ UNCHANGED <<b, A>>
                   /\ Raise("ValueError")
    /\ UNCHANGED <<cct_filt_down, d, d_new, params, demeaned, corr, C, Cinv, p, d_pred,
                   res, Nd_new, corr_new, C_new, Cinv_new>>

(***************************************************************************)
(* Cell 30: the filter coefficients.                                       *)
(***************************************************************************)
\* np.dot(np.linalg.inv(AA),bb)
Solve(AA, bb) == MatVec(Inv(AA), bb)

Cell30 ==
    /\ Reached("cell30")
    /\ IF Singular(A)
       THEN p' = p /\ Raise("LinAlgError")
       ELSE p' = Solve(A, b) /\ Goto("cell32")
    /\ UNCHANGED <<cct_filt_down, d, d_new, params, demeaned, corr, C, Cinv, X, b, A,
                   d_pred, res, Nd_new, corr_new, C_new, Cinv_new>>

(***************************************************************************)
(* Cells 32 and 35: prediction of the training window and its rms error.   *)
(***************************************************************************)
Cell32 ==
    /\ Reached("cell32")
    /\ LET pr == Predict(View(d), i0, Nd, p, n)
       IN  /\ d_pred' = pr.vec
           /\ IF pr.ok THEN Goto("cell35") ELSE Raise("IndexError")
    /\ UNCHANGED <<cct_filt_down, d, d_new, params, demeaned, corr, C, Cinv, X, b, A, p,
                   res, Nd_new, corr_new, C_new, Cinv_new>>

Cell35 ==
    /\ Reached("cell35")
    /\ LET obs == Slice(View(d), i0, i0 + Nd)
       IN  IF ScoreShapesOk(d_pred, obs, Cinv)
           THEN res' = Score(d_pred, obs, Cinv, Nd) /\ Goto("cell37")
           ELSE res' = res /\ Raise("ValueError")
    /\ UNCHANGED <<cct_filt_down, d, d_new, params, demeaned, corr, C, Cinv, X, b, A, p,
                   d_pred, Nd_new, corr_new, C_new, Cinv_new>>

(***************************************************************************)
(* Cells 37 and 39: prediction beyond the training window, with the        *)
(* covariance matrix rebuilt at the new length.                            *)
(***************************************************************************)
Cell37 ==
    /\ Reached("cell37")
    /\ Nd_new' = 2 * Nd
    /\ LET pr == Predict(View(d), i0, 2 * Nd, p, n)
       IN  /\ d_pred' = pr.vec
           /\ IF pr.ok THEN Goto("cell39") ELSE Raise("IndexError")
    /\ UNCHANGED <<cct_filt_down, d, d_new, params, demeaned, corr, C, Cinv, X, b, A, p,
                   res, corr_new, C_new, Cinv_new>>

\* the covariance cells 39 and 44 on the channel ch, then on to cell next:
\* correlation vector, matrix, inverse, residual, each of which may raise
Rescore(ch, next) ==
    LET acc == CorrAccum(View(ch), imin, imax, Nd_new)
        cn  == Strict(CorrScale(acc.vec, imin, imax))
        Cn  == Strict(Circulant(cn))
        Ci  == Strict(Inv(Cn))
        obs == Slice(View(ch), i0, i0 + Nd_new)
    IN  IF ~acc.ok
        THEN /\ corr_new' = acc.vec
             /\ UNCHANGED <<C_new, Cinv_new, res>>
             /\ Raise("IndexError")
        ELSE /\ corr_new' = cn
             /\ C_new' = Cn
             /\ IF Singular(Cn)
                THEN /\ UNCHANGED <<Cinv_new, res>>
                     /\ Raise("LinAlgError")
                ELSE /\ Cinv_new' = Ci
                     /\ IF ScoreShapesOk(d_pred, obs, Ci)
                        THEN /\ res' = Score(d_pred, obs, Ci, Nd_new)
                             /\ Goto(next)
                        ELSE /\ res' = res
                             /\ Raise("ValueError")

Cell39 ==
    /\ Reached("cell39")
    /\ Rescore(d, "cell41")
    /\ UNCHANGED <<cct_filt_down, d, d_new, params, demeaned, corr, C, Cinv, X, b, A, p,
                   d_pred, Nd_new>>

(***************************************************************************)
(* Cells 41 to 44: the same filter on another channel.                     *)
(***************************************************************************)
Cell41 ==
    /\ Reached("cell41")
    /\ d_new' = i_trace_new
    /\ Goto("cell42")
    /\ UNCHANGED <<cct_filt_down, d, params, demeaned, corr, C, Cinv, X, b, A, p,
                   d_pred, res, Nd_new, corr_new, C_new, Cinv_new>>

Cell42 ==
    /\ Reached("cell42")
    /\ LET pr == Predict(View(d_new), i0, Nd_new, p, n)
       IN  /\ d_pred' = pr.vec
           /\ IF pr.ok THEN Goto("cell44") ELSE Raise("IndexError")
    /\ UNCHANGED <<cct_filt_down, d, d_new, params, demeaned, corr, C, Cinv, X, b, A, p,
                   res, Nd_new, corr_new, C_new, Cinv_new>>

Cell44 ==
    /\ Reached("cell44")
    /\ Rescore(d_new, "done")
    /\ UNCHANGED <<cct_filt_down, d, d_new, params, demeaned, corr, C, Cinv, X, b, A, p,
                   d_pred, Nd_new>>

Next ==
    \/ Cell18 \/ Cell21 \/ Cell24 \/ Cell29 \/ Cell30 \/ Cell32 \/ Cell35
    \/ Cell37 \/ Cell39 \/ Cell41 \/ Cell42 \/ Cell44

Spec == Init /\ [][Next]_vars

(***************************************************************************)
(* Vocabulary of the properties.                                           *)
(***************************************************************************)
Cells == <<"cell18", "cell21", "cell24", "cell29", "cell30", "cell32", "cell35",
           "cell37", "cell39", "cell41", "cell42", "cell44", "done">>

Pos(cell) == CHOOSE k \in 1..Len(Cells) : Cells[k] = cell

\* the cell has run to its end without raising
Completed(cell) == Pos(pc) > Pos(cell)

\* sum of sig[i]*sig[i+j] for i = lo, ..., hi-1 (0-based indices)
RECURSIVE LagSum(_, _, _, _)
LagSum(sig, lo, hi, j) ==
    IF lo >= hi THEN Zero
    ELSE RAdd(RMul(sig[lo + 1], sig[lo + j + 1]), LagSum(sig, lo + 1, hi, j))

\* v is the correlation vector of sig at the given horizon: element j is the
\* window sum at lag j divided by the window length
IsCorrelationOf(v, sig, horizon) ==
    /\ Len(v) = horizon
    /\ \A j \in 0..(horizon - 1) :
          RMul(v[j + 1], Float(imax - imin)) = LagSum(sig, imin, imax, j)

\* M is square of the length of v and M[i,k] = v[(k - i) mod horizon]
IsShiftedCopies(M, v) ==
    /\ Len(M) = Len(v)
    /\ \A i \in 0..(Len(v) - 1) :
          /\ Len(M[i + 1]) = Len(v)
          /\ M[i + 1][i + 1] = v[1]
          /\ M[i + 1][1] = v[((0 - i) % Len(v)) + 1]
          /\ \A k \in 0..(Len(v) - 1) : M[i + 1][k + 1] = v[((k - i) % Len(v)) + 1]

(***************************************************************************)
(* C1.  The correlation vector has the length of the horizon, and element  *)
(* j is the sum over i in [imin, imax) of d[i]*d[i+j] on the mean-removed  *)
(* trace, divided by imax - imin: for corr at length Nd (cell 21) and for  *)
(* corr_new at length Nd_new (cell 39).  Only samples of                   *)
(* [imin, imax + horizon - 1) enter the sum.  The same sum, on the trace   *)
(* as it stands, gives corr_new of cell 44.                                *)
(***************************************************************************)
C1_CorrelationVector ==
    /\ Completed("cell21") /\ imin < imax =>
          /\ Mean(Slice(View(d), imin, imax)) = Zero
          /\ IsCorrelationOf(corr, View(d), Nd)
    /\ Completed("cell39") /\ d_new = 0 /\ imin < imax =>
          IsCorrelationOf(corr_new, View(d), Nd_new)
    /\ pc = "done" /\ imin < imax => IsCorrelationOf(corr_new, View(d_new), Nd_new)

C1_Witness ==
    /\ Completed("cell39") /\ d_new = 0
    /\ imax - imin = 2 /\ Nd = 2
    /\ corr[2] # Zero /\ corr_new[4] # Zero /\ corr_new[4] # corr_new[1]

(***************************************************************************)
(* C2.  The covariance matrix is horizon x horizon and row i is the        *)
(* correlation vector shifted cyclically by i: C[i,k] = corr[(k-i) mod     *)
(* horizon], so C[i,0] = corr[(-i) mod horizon] and C[i,i] = corr[0]; for  *)
(* C at length Nd and for C_new at length Nd_new.                          *)
(***************************************************************************)
C2_ShiftedRows ==
    /\ C # Unset => IsShiftedCopies(C, corr)
    /\ C_new # Unset /\ err # "IndexError" => IsShiftedCopies(C_new, corr_new)

C2_Witness ==
    /\ Completed("cell39")
    /\ Len(C_new) = 4
    /\ C_new[2][1] # C_new[1][2]
    /\ Len(C) = 2 /\ C[1][2] # Zero

(***************************************************************************)
(* C3.  For i0 >= n and i0 + Nd <= len(d), the normal equations of cell 29 *)
(* are, for all q, k in [0, n) and r in [0, Nd):                           *)
(*   X[r,q] = sum_j Cinv[r,j]*d[i0-q-1+j],                                 *)
(*   b[q]   = sum_r d[i0+r]*X[r,q],                                        *)
(*   A[q,k] = sum_r d[i0-k-1+r]*X[r,q],                                    *)
(* with X of shape Nd x n, A of shape n x n and b of length n.             *)
(***************************************************************************)
\* sample k (0-based) of the trace d views
Sample(ch, k) == View(ch)[k + 1]

C3_NormalEquations ==
    Completed("cell29") /\ i0 >= n /\ i0 + Nd <= NT =>
        /\ Len(X) = Nd /\ Len(A) = n /\ Len(b) = n
        /\ \A q \in 0..(n - 1) :
              /\ Len(A[q + 1]) = n
              /\ \A r \in 0..(Nd - 1) :
                    /\ Len(X[r + 1]) = n
                    /\ X[r + 1][q + 1] =
                          SumSeq([j \in 1..Nd |->
                                     RMul(Cinv[r + 1][j], Sample(d, i0 - q - 1 + j - 1))])
              /\ b[q + 1] =
                    SumSeq([r \in 1..Nd |-> RMul(Sample(d, i0 + r - 1), X[r][q + 1])])
              /\ \A k \in 0..(n - 1) :
                    A[q + 1][k + 1] =
                       SumSeq([r \in 1..Nd |->
                                  RMul(Sample(d, i0 - k - 1 + r - 1), X[r][q + 1])])

C3_Witness ==
    /\ Completed("cell29") /\ i0 >= n /\ i0 + Nd <= NT
    /\ n = 2 /\ Nd = 3
    /\ A[1][2] # A[2][1] /\ b[1] # Zero /\ b[2] # Zero

(***************************************************************************)
(* C4.  A prediction has the length of its horizon (Nd in cell 32, the     *)
(* larger Nd_new in cells 37 and 42) and, for j in [0, horizon),           *)
(* predicted[j] = sum over i in [0, n) of signal[i0+j-i-1]*p[i]: every     *)
(* term is a sample of the signal, never an earlier predicted value.       *)
(***************************************************************************)
IsPredictionOf(v, ch, horizon) ==
    /\ Len(v) = horizon
    /\ \A j \in 0..(horizon - 1) :
          v[j + 1] = SumSeq([i \in 1..n |-> RMul(Sample(ch, i0 + j - (i - 1) - 1), p[i])])

C4_Prediction ==
    i0 >= n =>
        /\ pc = "cell35" \/ Reached("cell37") => IsPredictionOf(d_pred, d, Nd)
        /\ pc \in {"cell39", "cell41"} \/ Reached("cell42") =>
              Nd_new > Nd /\ IsPredictionOf(d_pred, d, Nd_new)
        /\ pc \in {"cell44", "done"} => IsPredictionOf(d_pred, d_new, Nd_new)

C4_Witness ==
    /\ pc = "done" /\ i0 >= n /\ n = 2 /\ Nd = 2
    /\ p[1] # Zero /\ p[2] # Zero
    /\ \A j \in 1..4 : d_pred[j] # Zero /\ d_pred[j] # Sample(d_new, i0 + j - 1)

(***************************************************************************)
(* C5.  The coefficients p, once solved for, are never modified by a later *)
(* step, and every scoring step (cells 35, 39, 44) uses an inverse         *)
(* covariance matrix whose dimension equals the length of the predicted    *)
(* sequence and the length of the observed sequence it scores.  Stated for *)
(* runs with a nonempty noise window.                                      *)
(***************************************************************************)
\* the step scores pred against samples [i0, i0+horizon) of channel ch with Ci
ScoresWith(from, to, Ci, ch, horizon) ==
    pc = from /\ pc' = to =>
        /\ Len(Ci) = Len(d_pred)
        /\ Len(Ci) = Len(Slice(View(ch), i0, i0 + horizon))

C5_CoefficientsAndDimensions ==
    [][imin < imax =>
           /\ p # Unset => p' = p
           /\ ScoresWith("cell35", "cell37", Cinv, d, Nd)
           /\ ScoresWith("cell39", "cell41", Cinv_new', d, Nd_new)
           /\ ScoresWith("cell44", "done", Cinv_new', d_new, Nd_new)]_vars

(***************************************************************************)
(* C6.  On every trace on which a correlation vector is accumulated, the   *)
(* window mean has been subtracted exactly once, before the accumulation:  *)
(* on d by the end of cell 21 and ever after, on d_new by the end of       *)
(* cell 44.                                                                *)
(***************************************************************************)
C6_MeanRemovedOnce ==
    imin < imax =>
        /\ Completed("cell21") => demeaned[i_trace] = 1
        /\ pc = "done" => demeaned[i_trace_new] = 1

(***************************************************************************)
(* C7.  No step changes the dataset the traces were extracted from: the    *)
(* samples read from it after a step are the samples before the step.      *)
(* Stated for runs with a nonempty noise window.                           *)
(***************************************************************************)
C7_DatasetUnchanged == [][imin < imax => cct_filt_down' = cct_filt_down]_vars

(***************************************************************************)
(* C8.  With an empty noise window (imin >= imax) the covariance cell 21   *)
(* stops with InputRangeError and leaves no correlation vector or matrix.  *)
(***************************************************************************)
C8_EmptyWindowRaises ==
    imin >= imax /\ pc # "cell18" /\ ~Reached("cell21") =>
        /\ pc = "cell21" /\ err = "InputRangeError"
        /\ corr = Unset /\ C = Unset

(***************************************************************************)
(* C9.  With a nonempty noise window and fewer than n samples before the   *)
(* start index (i0 < n), the normal-equations cell 29 stops with           *)
(* InputRangeError and produces nothing, and no prediction is ever made.   *)
(***************************************************************************)
C9_ShortHistoryRaises ==
    imin < imax /\ i0 < n /\ Pos(pc) >= Pos("cell29") /\ ~Reached("cell29") =>
        /\ pc = "cell29" /\ err = "InputRangeError"
        /\ X = Unset /\ b = Unset /\ A = Unset /\ d_pred = Unset

(***************************************************************************)
(* C10.  With a nonempty noise window and predicted and observed sequences *)
(* of the length of the inverse covariance matrix, the quadratic form is   *)
(* nonnegative, so the rms error is a real number >= 0, and it is 0 when   *)
(* the prediction equals the observation.                                  *)
(***************************************************************************)
C10_ScoreNonnegative ==
    Completed("cell35") /\ imin < imax /\ i0 >= n /\ i0 + 2 * Nd <= NT =>
        /\ res.real
        /\ ~RLt(res.sq, Zero)
        /\ Reached("cell37") /\ d_pred = Slice(View(d), i0, i0 + Nd) => res.sq = Zero

(***************************************************************************)
(* Symmetry, with the equality of floating-point numbers: nan equals       *)
(* nothing, itself included.                                               *)
(***************************************************************************)
FEq(x, y) == ~IsNaN(x) /\ ~IsNaN(y) /\ x = y

IsSymmetric(M) == \A i, k \in 1..Len(M) : FEq(M[i][k], M[k][i])

\* v[j] = v[(horizon - j) mod horizon] for every j in [1, horizon)
IsCyclicSymmetric(v) ==
    \A j \in 1..(Len(v) - 1) : FEq(v[j + 1], v[((Len(v) - j) % Len(v)) + 1])

(***************************************************************************)
(* C11, as stated.  For a nonempty noise window and a start index with     *)
(* enough samples on both sides, the system matrix A of cell 29 is         *)
(* symmetric: A[q,k] = A[k,q] for all q, k in [0, n).                      *)
(***************************************************************************)
C11_SystemMatrixSymmetric ==
    Completed("cell29") /\ imin < imax /\ i0 >= n /\ i0 + Nd <= NT => IsSymmetric(A)

(***************************************************************************)
(* C11, amended.  Under the same conditions the system matrix A of cell 29 *)
(* is symmetric whenever the correlation vector is cyclically symmetric,   *)
(* corr[j] = corr[(Nd - j) mod Nd] for every j in [1, Nd), which makes C   *)
(* and Cinv symmetric.                                                     *)
(***************************************************************************)
C11_SymmetricWhenCorrIs ==
    Completed("cell29") /\ imin < imax /\ i0 >= n /\ i0 + Nd <= NT
        /\ IsCyclicSymmetric(corr) =>
            IsSymmetric(Cinv) /\ IsSymmetric(A)

C11_Witness ==
    /\ Completed("cell29") /\ imin < imax /\ i0 >= n /\ i0 + Nd <= NT
    /\ n = 2 /\ Nd = 2 /\ IsCyclicSymmetric(corr) /\ corr[2] # Zero
    /\ Cinv[1][2] # Zero /\ A[1][2] # Zero

(***************************************************************************)
(* C12.  The covariance matrix of cell 24 (and C_new of cells 39 and 44)   *)
(* is not symmetrized: it is symmetric only if its correlation vector is   *)
(* cyclically symmetric, v[j] = v[(horizon - j) mod horizon] for every j   *)
(* in [1, horizon); for a nonempty noise window the converse holds too.    *)
(***************************************************************************)
SymmetricOnlyIfCorrIs(M, v) ==
    /\ IsSymmetric(M) => IsCyclicSymmetric(v)
    /\ imin < imax /\ IsCyclicSymmetric(v) => IsSymmetric(M)

C12_NotSymmetrized ==
    /\ C # Unset => SymmetricOnlyIfCorrIs(C, corr)
    /\ C_new # Unset /\ err # "IndexError" => SymmetricOnlyIfCorrIs(C_new, corr_new)

C12_Witness ==
    /\ Reached("cell29") /\ imin < imax /\ Len(C) = 3
    /\ ~IsCyclicSymmetric(corr) /\ ~IsSymmetric(C)
    /\ C[1][2] # Zero /\ C[2][1] = Zero

=============================================================================
